---- MODULE Spec2Model ----
(***************************************************************************)
(* Model of the premiumize client binding (src/premiumize/premiumize.py,   *)
(* src/premiumize/filetypes.py).                                           *)
(*                                                                         *)
(* The client holds user_id, user_pin and base_url.  Every endpoint method *)
(* builds a parameter dict, calls _request (one requests.get followed by   *)
(* json.loads) and interprets the "status" field of the decoded object.    *)
(*                                                                         *)
(* Python values whose type matters (ids may be int or str, None) are      *)
(* records [t, v]: t is the Python type, v the text str() gives.  Python   *)
(* == is record equality, str(x) == str(y) compares the v fields only.     *)
(* A dict whose iteration order is observable (the "content" and           *)
(* "children" mappings walked by browse_torrent) is a sequence of          *)
(* [key, value] entries with distinct keys; a dict that is only indexed    *)
(* (parameters, decoded file objects, the response object) is a function.  *)
(***************************************************************************)
EXTENDS Integers, Sequences, FiniteSets, TLC

\* ------------------------------------------------------------------ bounds
\* longest list of items handed to move_item
MaxItems == 2
\* longest "content" list of a /folder/list response
MaxContent == 2
\* most children under one top-level key of a /torrent/browse response (a
\* response holds at most one entry per key of TopKeys)
MaxChildren == 2

\* ----------------------------------------------------------- Python values
PyInt(s) == [t |-> "int", v |-> s]
PyStr(s) == [t |-> "str", v |-> s]
None == [t |-> "none", v |-> "None"]

\* the builtin str()
str(x) == x.v

\* the empty dict
EmptyDict == <<>>

\* d[key] = value on a dict d (an existing key is overwritten)
SetItem(d, key, value) ==
    [k \in DOMAIN d \cup {key} |-> IF k = key THEN value ELSE d[k]]

\* every sequence over S of length at most n
SeqUpTo(S, n) == UNION {[1..k -> S] : k \in 0..n}

\* every sequence of distinct keys of K, of length at most n
InjSeqUpTo(K, n) ==
    {s \in SeqUpTo(K, n) : \A i, j \in 1..Len(s) : i /= j => s[i] /= s[j]}

\* ---------------------------------------------------------------- inputs
UserIds == {PyStr("1000"), PyStr("2000")}
UserPins == {PyStr("pinA"), PyStr("pinB")}
BaseUrls == {"https://www.premiumize.me/api", "http://localhost/api"}

Ids == {PyInt("1"), PyStr("1"), PyInt("2")}
OptIds == {None} \cup Ids
FolderNames == {PyStr("docs")}
Sources == {PyStr("magnet:?xt=urn:btih:abc")}
TransferTypes == {PyStr("torrent")}

\* entities the caller may hold (PremiumizeFile instances, by attributes)
Entities ==
    { [id |-> PyInt("1"), type |-> PyStr("folder")],
      [id |-> PyStr("1"), type |-> PyStr("file")],
      [id |-> PyInt("2"), type |-> PyStr("file"), hash |-> PyStr("abc")],
      [id |-> PyInt("2"), type |-> PyStr("torrent"), hash |-> PyStr("abc")],
      [id |-> PyInt("2"), type |-> PyStr("torrent")],
      [id |-> PyInt("1")],
      [name |-> PyStr("x")] }

\* JSON objects of a /folder/list "content" list
FileObjects ==
    { [id |-> PyInt("1"), name |-> PyStr("docs"), type |-> PyStr("folder")],
      [id |-> PyInt("2"), name |-> PyStr("a.iso"), type |-> PyStr("torrent"),
       hash |-> PyStr("abc")],
      [name |-> PyStr("x")] }

\* JSON objects of a /torrent/browse "children" mapping, by item name; the one
\* named f2 is a directory that holds children of its own
ChildNames == {"f1", "f2", "f3"}
ChildObject(n) ==
    IF n = "f2"
    THEN [name |-> PyStr(n), type |-> PyStr("dir"),
          children |-> << [key |-> "g1",
                             value |-> [name |-> PyStr("g1"), type |-> PyStr("file")]] >>]
    ELSE [name |-> PyStr(n), type |-> PyStr("file")]
ChildrenMaps ==
    {[k \in 1..Len(s) |-> [key |-> s[k], value |-> ChildObject(s[k])]] :
         s \in InjSeqUpTo(ChildNames, MaxChildren)}
TopKeys == {"a", "b"}
TopValues == {[children |-> cm] : cm \in ChildrenMaps} \cup {[size |-> PyInt("7")]}
BrowseContents ==
    UNION { {[k \in 1..Len(s) |-> [key |-> s[k], value |-> vals[k]]] :
                 vals \in [1..Len(s) -> TopValues]}
            : s \in InjSeqUpTo(TopKeys, Cardinality(TopKeys)) }

TransferLists == SeqUpTo({[id |-> PyInt("1"), status |-> PyStr("finished")]}, 1)

StatusValues == {"success", "error", "pending"}
Messages == {"", "no such folder"}

\* the JSON objects the server may answer with: "status" and "message" may
\* each be absent
BaseResponses ==
    {EmptyDict} \cup {SetItem(EmptyDict, "status", s) : s \in StatusValues}
      \cup {SetItem(EmptyDict, "message", m) : m \in Messages}
      \cup {SetItem(SetItem(EmptyDict, "status", s), "message", m) :
                s \in StatusValues, m \in Messages}

\* the same, with or without a payload field
WithPayload(field, payloads) ==
    BaseResponses \cup {SetItem(r, field, p) : p \in payloads, r \in BaseResponses}

\* what the transport hands back for one GET: requests.get raises, the body
\* is not JSON, or the body decodes to an object
Net(objects) ==
    {[kind |-> "fail"], [kind |-> "garbage"]} \cup {[kind |-> "json", obj |-> o] : o \in objects}
NoNet == [kind |-> "none"]

\* the answers each endpoint may give
PlainNet == Net(BaseResponses)
FolderListNet == Net(WithPayload("content", SeqUpTo(FileObjects, MaxContent)))
TorrentBrowseNet == Net(WithPayload("content", BrowseContents))
TransferListNet == Net(WithPayload("transfers", TransferLists))
ItemLists == SeqUpTo(Entities, MaxItems)

\* the arguments of an invocation are kept by parameter name; a list handed
\* to move_item as item is kept under "items", a single entity under "item"
VARIABLES
    user_id, user_pin, base_url,  \* the client's attributes
    ctor,            \* the arguments the client was constructed with
    default_params,  \* the dict object that is _request's default for params
    pc,              \* "idle": the caller holds control; "done": a method has ended
    op,              \* the method last invoked
    args,            \* its arguments
    sent,            \* the GET requests that invocation issued, in order
    resp,            \* what the transport handed back to it (NoNet: nothing sent)
    outcome          \* how it ended: a return value or a raised exception

vars == <<user_id, user_pin, base_url, ctor, default_params, pc, op, args, sent, resp, outcome>>

\* ------------------------------------------------------------ entity model
\* PremiumizeFile.__init__: for key in data: self.__dict__[key] = data[key]
RECURSIVE SetAttrs(_, _, _)
SetAttrs(dict, keys, data) ==
    IF keys = {} THEN dict
    ELSE LET key == CHOOSE k \in keys : TRUE
         IN  SetAttrs(SetItem(dict, key, data[key]), keys \ {key}, data)

\* a variant of PremiumizeFile that starts from a default type attribute
PremiumizeFile_Defaulted(data) ==
    SetAttrs(SetItem(EmptyDict, "type", PyStr("file")), DOMAIN data, data)

PremiumizeFile(data) == SetAttrs(EmptyDict, DOMAIN data, data)

\* attribute access item.<name> succeeds only on an attribute that was set
HasAttr(item, name) == name \in DOMAIN item

\* ---------------------------------------------------------------- results
\* an outcome is a return or a raise; a return hands back None (result
\* "none") or a list (result "list", the list in value)
NoOutcome == [kind |-> "none", exc |-> "", text |-> "", result |-> "none", value |-> <<>>]
ReturnNone(s) ==
    [sent |-> s,
     outcome |-> [kind |-> "return", exc |-> "", text |-> "", result |-> "none", value |-> <<>>]]
Return(s, value) ==
    [sent |-> s,
     outcome |-> [kind |-> "return", exc |-> "", text |-> "", result |-> "list", value |-> value]]
Raise(s, exc, text) ==
    [sent |-> s,
     outcome |-> [kind |-> "raise", exc |-> exc, text |-> text, result |-> "none", value |-> <<>>]]

\* ----------------------------------------------------------------- _request
\* request_params = {"customer_id": ..., "pin": ...}; then every key of params
\* is assigned over it
RECURSIVE MergeParams(_, _, _)
MergeParams(request_params, keys, params) ==
    IF keys = {} THEN request_params
    ELSE LET key == CHOOSE k \in keys : TRUE
         IN  MergeParams(SetItem(request_params, key, params[key]), keys \ {key}, params)

\* a variant of RequestParams that files the customer id under both keys
RequestParams_PinFromId(params) ==
    MergeParams(SetItem(SetItem(EmptyDict, "customer_id", user_id), "pin", user_id),
                DOMAIN params, params)

RequestParams(params) ==
    MergeParams(SetItem(SetItem(EmptyDict, "customer_id", user_id), "pin", user_pin),
                DOMAIN params, params)

\* the URL requests.get is called with
RequestUrl(endpoint) == base_url \o endpoint

\* a variant of _request that tries once more when requests.get raises
_request_Retry(endpoint, params, net) ==
    LET req == [url |-> RequestUrl(endpoint), params |-> RequestParams(params)]
    IN  [sent |-> IF net.kind = "fail" THEN <<req, req>> ELSE <<req>>,
         exc |-> IF net.kind = "fail" THEN "ConnectionError"
                 ELSE IF net.kind = "garbage" THEN "ValueError"
                 ELSE "",
         req_res |-> IF net.kind = "json" THEN net.obj ELSE EmptyDict]

\* one call of _request: the requests issued, the exception that escaped it
\* ("" if none) and the decoded object it returned
_request(endpoint, params, net) ==
    LET req == [url |-> RequestUrl(endpoint), params |-> RequestParams(params)]
    IN  [sent |-> <<req>>,
         exc |-> IF net.kind = "fail" THEN "ConnectionError"
                 ELSE IF net.kind = "garbage" THEN "ValueError"
                 ELSE "",
         req_res |-> IF net.kind = "json" THEN net.obj ELSE EmptyDict]

\* ------------------------------------------------------------ status checks
\* the two policies: list_folder and create_folder fail on anything but
\* "success"; every other checked method fails on "error" only
\* a variant of NotSuccess that applies the other policy
NotSuccess_OnlyError(req_res) == req_res["status"] = "error"
NotSuccess(req_res) == req_res["status"] /= "success"
IsError(req_res) == req_res["status"] = "error"

\* raise PremiumizeException(prefix + req_res["message"]) where the check
\* fails; both subscripts raise KeyError on an absent key
CheckStatus(r, fails, prefix, result) ==
    IF r.exc /= "" THEN Raise(r.sent, r.exc, "")
    ELSE IF "status" \notin DOMAIN r.req_res THEN Raise(r.sent, "KeyError", "status")
    ELSE IF fails
         THEN IF "message" \notin DOMAIN r.req_res
              THEN Raise(r.sent, "KeyError", "message")
              ELSE Raise(r.sent, "PremiumizeException", prefix \o r.req_res["message"])
    ELSE result

\* ------------------------------------------------------------ folder methods
\* for file_dict in req_res['content']: res.append(PremiumizeFile(file_dict))
RECURSIVE WrapAll(_, _, _)
WrapAll(res, content, k) ==
    IF k > Len(content) THEN res
    ELSE WrapAll(Append(res, PremiumizeFile(content[k])), content, k + 1)

list_folder(id, net) ==
    LET params == IF id = None THEN EmptyDict ELSE SetItem(EmptyDict, "id", id)
        r == _request("/folder/list", params, net)
    IN  CheckStatus(r, NotSuccess(r.req_res), "",
            IF "content" \notin DOMAIN r.req_res THEN Raise(r.sent, "KeyError", "content")
            ELSE Return(r.sent, WrapAll(<<>>, r.req_res["content"], 1)))

create_folder(name, parent_id, net) ==
    LET p0 == SetItem(EmptyDict, "name", name)
        params == IF parent_id /= None THEN SetItem(p0, "parent_id", parent_id) ELSE p0
        r == _request("/folder/create", params, net)
    IN  CheckStatus(r, NotSuccess(r.req_res), "Error creating folder: ", ReturnNone(r.sent))

delete_folder(id, net) ==
    LET params == SetItem(EmptyDict, "id", id)
        r == _request("/folder/delete", params, net)
    IN  CheckStatus(r, IsError(r.req_res), "Error deleting folder: ", ReturnNone(r.sent))

rename_folder(id, new_name, net) ==
    LET params == SetItem(SetItem(EmptyDict, "id", id), "name", new_name)
        r == _request("/folder/rename", params, net)
    IN  CheckStatus(r, IsError(r.req_res), "Error renaming folder: ", ReturnNone(r.sent))

\* -------------------------------------------------------------- item methods
\* "items[%i][id]" % index and "items[%i][type]" % index
ItemsKey(index, field) == "items[" \o ToString(index) \o "][" \o field \o "]"

\* a variant of SameAsFolder that compares the ids without str()
SameAsFolder_NoStr(i_item, folder_id) == i_item["id"] = folder_id

\* the comparison that skips an item: str(i_item.id) == str(folder_id)
SameAsFolder(i_item, folder_id) == str(i_item["id"]) = str(folder_id)

\* the loop over a list of items, from position index (0-based) on: the
\* exception that ended it ("" if none, else the missing attribute in attr)
\* and the params built
RECURSIVE ItemsLoop(_, _, _, _)
ItemsLoop(item, index, folder_id, params) ==
    IF index >= Len(item) THEN [exc |-> "", attr |-> "", params |-> params]
    ELSE LET i_item == item[index + 1]
         IN  IF ~HasAttr(i_item, "id")
             THEN [exc |-> "AttributeError", attr |-> "id", params |-> params]
             ELSE IF SameAsFolder(i_item, folder_id)
             THEN ItemsLoop(item, index + 1, folder_id, params)
             ELSE IF ~HasAttr(i_item, "type")
             THEN [exc |-> "AttributeError", attr |-> "type",
                   params |-> SetItem(params, ItemsKey(index, "id"), i_item["id"])]
             ELSE ItemsLoop(item, index + 1, folder_id,
                      SetItem(SetItem(params, ItemsKey(index, "id"), i_item["id"]),
                              ItemsKey(index, "type"), i_item["type"]))

\* the tail of move_item: one request to /folder/paste and the status check
Paste(params, net) ==
    LET r == _request("/folder/paste", params, net)
    IN  CheckStatus(r, IsError(r.req_res), "Error moving item: ", ReturnNone(r.sent))

\* is_list tells type(item) is list; item is then a sequence of entities,
\* otherwise one entity
move_item(is_list, item, folder_id, net) ==
    LET p0 == IF folder_id /= None THEN SetItem(EmptyDict, "id", folder_id) ELSE EmptyDict
    IN  IF is_list
        THEN LET l == ItemsLoop(item, 0, folder_id, p0)
             IN  IF l.exc /= "" THEN Raise(<<>>, l.exc, l.attr)
                 ELSE IF Cardinality(DOMAIN l.params) < 2 THEN ReturnNone(<<>>)
                 ELSE Paste(l.params, net)
        ELSE IF ~HasAttr(item, "id") THEN Raise(<<>>, "AttributeError", "id")
        ELSE IF ~HasAttr(item, "type") THEN Raise(<<>>, "AttributeError", "type")
        ELSE Paste(SetItem(SetItem(p0, "items[0][id]", item["id"]),
                           "items[0][type]", item["type"]), net)

delete_item(item, net) ==
    IF ~HasAttr(item, "type") THEN Raise(<<>>, "AttributeError", "type")
    ELSE IF ~HasAttr(item, "id") THEN Raise(<<>>, "AttributeError", "id")
    ELSE LET params == SetItem(SetItem(EmptyDict, "type", item["type"]), "id", item["id"])
             r == _request("/item/delete", params, net)
         IN  CheckStatus(r, IsError(r.req_res), "Error moving item: ", ReturnNone(r.sent))

\* ----------------------------------------------------------- torrent methods
\* a variant of NotTorrent that lets an item with a hash through
NotTorrent_UnlessHash(item) == item["type"] /= PyStr("torrent") /\ ~HasAttr(item, "hash")

\* the guard of browse_torrent: item.type != "torrent"
NotTorrent(item) == item["type"] /= PyStr("torrent")

\* a variant of WrapChildren that also descends into a child's own children
RECURSIVE WrapChildren_Deep(_, _, _)
WrapChildren_Deep(res, children, k) ==
    IF k > Len(children) THEN res
    ELSE LET child == children[k].value
             one == Append(res, PremiumizeFile(child))
         IN  WrapChildren_Deep(
                 IF "children" \in DOMAIN child
                 THEN WrapChildren_Deep(one, child["children"], 1)
                 ELSE one,
                 children, k + 1)

\* for item_name in children: res.append(PremiumizeFile(children[item_name]))
RECURSIVE WrapChildren(_, _, _)
WrapChildren(res, children, k) ==
    IF k > Len(children) THEN res
    ELSE WrapChildren(Append(res, PremiumizeFile(children[k].value)), children, k + 1)

\* for key in content: ... content[key]['children'] ...: the exception that
\* ended the loops ("" if none) and the list built
RECURSIVE Flatten(_, _, _)
Flatten(res, content, k) ==
    IF k > Len(content) THEN [exc |-> "", res |-> res]
    ELSE IF "children" \notin DOMAIN content[k].value THEN [exc |-> "KeyError", res |-> res]
    ELSE Flatten(WrapChildren(res, content[k].value["children"], 1), content, k + 1)

browse_torrent(item, net) ==
    IF ~HasAttr(item, "type") THEN Raise(<<>>, "AttributeError", "type")
    ELSE IF NotTorrent(item) THEN Raise(<<>>, "PremiumizeException", "item is not a torrent")
    ELSE IF ~HasAttr(item, "hash") THEN Raise(<<>>, "AttributeError", "hash")
    ELSE LET params == SetItem(EmptyDict, "hash", item["hash"])
             r == _request("/torrent/browse", params, net)
         IN  CheckStatus(r, IsError(r.req_res), "Error browsing torrent: ",
                 IF "content" \notin DOMAIN r.req_res THEN Raise(r.sent, "KeyError", "content")
                 ELSE LET f == Flatten(<<>>, r.req_res["content"], 1)
                      IN  IF f.exc /= "" THEN Raise(r.sent, f.exc, "children")
                          ELSE Return(r.sent, f.res))

\* ---------------------------------------------------------- transfer methods
start_transfer(source, folder_id, net) ==
    LET p0 == SetItem(SetItem(EmptyDict, "src", source), "type", PyStr("torrent"))
        params == IF folder_id /= None THEN SetItem(p0, "folder_id", folder_id) ELSE p0
        r == _request("/transfer/create", params, net)
    IN  CheckStatus(r, IsError(r.req_res), "Error starting transfer: ", ReturnNone(r.sent))

list_transfer(net) ==
    LET r == _request("/transfer/list", default_params, net)
    IN  IF r.exc /= "" THEN Raise(r.sent, r.exc, "")
        ELSE IF "transfers" \notin DOMAIN r.req_res THEN Raise(r.sent, "KeyError", "transfers")
        ELSE Return(r.sent, r.req_res["transfers"])

clear_finished_transfer(net) ==
    LET r == _request("/transfer/clearfinished", default_params, net)
    IN  CheckStatus(r, IsError(r.req_res), "Error starting transfer: ", ReturnNone(r.sent))

abort_transfer(type, id, net) ==
    LET params == SetItem(SetItem(EmptyDict, "type", type), "id", id)
        r == _request("/transfer/delete", params, net)
    IN  CheckStatus(r, IsError(r.req_res), "Error deleting transfer: ", ReturnNone(r.sent))

\* ------------------------------------------------------------- state machine
\* Premiumize.__init__
Init ==
    /\ user_id \in UserIds
    /\ user_pin \in UserPins
    /\ base_url \in BaseUrls
    /\ ctor = [user_id |-> user_id, user_pin |-> user_pin, base_url |-> base_url]
    /\ default_params = EmptyDict
    /\ pc = "idle"
    /\ op = "none"
    /\ args = EmptyDict
    /\ sent = <<>>
    /\ resp = NoNet
    /\ outcome = NoOutcome

\* one whole invocation of method name with arguments a, ending in result r
\* after the transport handed back net (if a request was issued at all)
Invoke(name, a, r, net) ==
    /\ pc' = "done"
    /\ op' = name
    /\ args' = a
    /\ sent' = r.sent
    /\ resp' = IF r.sent = <<>> THEN NoNet ELSE net
    /\ outcome' = r.outcome
    /\ UNCHANGED <<user_id, user_pin, base_url, ctor, default_params>>

ListFolder ==
    /\ pc = "idle"
    /\ \E id \in OptIds, net \in FolderListNet :
           Invoke("list_folder", [id |-> id], list_folder(id, net), net)

CreateFolder ==
    /\ pc = "idle"
    /\ \E name \in FolderNames, parent_id \in OptIds, net \in PlainNet :
           Invoke("create_folder", [name |-> name, parent_id |-> parent_id],
                  create_folder(name, parent_id, net), net)

DeleteFolder ==
    /\ pc = "idle"
    /\ \E id \in Ids, net \in PlainNet :
           Invoke("delete_folder", [id |-> id], delete_folder(id, net), net)

RenameFolder ==
    /\ pc = "idle"
    /\ \E id \in Ids, new_name \in FolderNames, net \in PlainNet :
           Invoke("rename_folder", [id |-> id, new_name |-> new_name],
                  rename_folder(id, new_name, net), net)

MoveItems ==
    /\ pc = "idle"
    /\ \E item \in ItemLists, folder_id \in OptIds, net \in PlainNet :
           Invoke("move_item", [is_list |-> TRUE, items |-> item, folder_id |-> folder_id],
                  move_item(TRUE, item, folder_id, net), net)

MoveItem ==
    /\ pc = "idle"
    /\ \E item \in Entities, folder_id \in OptIds, net \in PlainNet :
           Invoke("move_item", [is_list |-> FALSE, item |-> item, folder_id |-> folder_id],
                  move_item(FALSE, item, folder_id, net), net)

DeleteItem ==
    /\ pc = "idle"
    /\ \E item \in Entities, net \in PlainNet :
           Invoke("delete_item", [item |-> item], delete_item(item, net), net)

BrowseTorrent ==
    /\ pc = "idle"
    /\ \E item \in Entities, net \in TorrentBrowseNet :
           Invoke("browse_torrent", [item |-> item], browse_torrent(item, net), net)

StartTransfer ==
    /\ pc = "idle"
    /\ \E source \in Sources, folder_id \in OptIds, net \in PlainNet :
           Invoke("start_transfer", [source |-> source, folder_id |-> folder_id],
                  start_transfer(source, folder_id, net), net)

ListTransfer ==
    /\ pc = "idle"
    /\ \E net \in TransferListNet :
           Invoke("list_transfer", EmptyDict, list_transfer(net), net)

ClearFinishedTransfer ==
    /\ pc = "idle"
    /\ \E net \in PlainNet :
           Invoke("clear_finished_transfer", EmptyDict, clear_finished_transfer(net), net)

AbortTransfer ==
    /\ pc = "idle"
    /\ \E type \in TransferTypes, id \in Ids, net \in PlainNet :
           Invoke("abort_transfer", [type |-> type, id |-> id], abort_transfer(type, id, net), net)

\* the method has returned or raised: the caller has control again and may
\* invoke the next method on the same client; nothing of the ended invocation
\* is kept by the client
CallerResumes ==
    /\ pc = "done"
    /\ pc' = "idle"
    /\ op' = "none"
    /\ args' = EmptyDict
    /\ sent' = <<>>
    /\ resp' = NoNet
    /\ outcome' = NoOutcome
    /\ UNCHANGED <<user_id, user_pin, base_url, ctor, default_params>>

Next ==
    \/ ListFolder
    \/ CreateFolder
    \/ DeleteFolder
    \/ RenameFolder
    \/ MoveItems
    \/ MoveItem
    \/ DeleteItem
    \/ BrowseTorrent
    \/ StartTransfer
    \/ ListTransfer
    \/ ClearFinishedTransfer
    \/ AbortTransfer
    \/ CallerResumes

Spec == Init /\ [][Next]_vars

\* ------------------------------------------------------- reading a state
\* a method has ended and its result is in outcome
Done == pc = "done"

\* the transport handed back a JSON object
Answered == Done /\ resp.kind = "json"
HasStatus == Answered /\ "status" \in DOMAIN resp.obj
HasMessage == Answered /\ "message" \in DOMAIN resp.obj

Returned == Done /\ outcome.kind = "return"
ApiError == Done /\ outcome.kind = "raise" /\ outcome.exc = "PremiumizeException"

\* part occurs in text
Contains(text, part) ==
    \E i \in 1..(Len(text) + 1) :
        /\ i + Len(part) - 1 <= Len(text)
        /\ SubSeq(text, i, i + Len(part) - 1) = part

\* the methods by status policy, and each method's endpoint and error prefix
SuccessOnlyOps == {"list_folder", "create_folder"}
ErrorOnlyOps ==
    {"delete_folder", "rename_folder", "move_item", "delete_item", "start_transfer",
     "clear_finished_transfer", "abort_transfer"}
CheckedOps == SuccessOnlyOps \cup ErrorOnlyOps \cup {"browse_torrent"}

Endpoint(name) ==
    CASE name = "list_folder" -> "/folder/list"
      [] name = "create_folder" -> "/folder/create"
      [] name = "delete_folder" -> "/folder/delete"
      [] name = "rename_folder" -> "/folder/rename"
      [] name = "move_item" -> "/folder/paste"
      [] name = "delete_item" -> "/item/delete"
      [] name = "browse_torrent" -> "/torrent/browse"
      [] name = "start_transfer" -> "/transfer/create"
      [] name = "list_transfer" -> "/transfer/list"
      [] name = "clear_finished_transfer" -> "/transfer/clearfinished"
      [] name = "abort_transfer" -> "/transfer/delete"

\* the response fails the status check of the method that received it
FailsCheck ==
    /\ HasStatus
    /\ op \in CheckedOps
    /\ IF op \in SuccessOnlyOps THEN resp.obj["status"] /= "success"
       ELSE resp.obj["status"] = "error"

\* ------------------------------------------------------------------ claims
\* C1: list_folder and create_folder, on a response that carries a status and
\* a message, raise an API error exactly when the status is not "success"
\* ("error" and "pending" both raise), and the text of the error contains the
\* response's message.
C1_RaisesUnlessSuccess ==
    (Done /\ op \in SuccessOnlyOps /\ HasStatus /\ HasMessage) =>
        /\ ApiError <=> resp.obj["status"] /= "success"
        /\ ApiError => Contains(outcome.text, resp.obj["message"])

C1_Witness ==
    /\ Done /\ op = "create_folder"
    /\ HasStatus /\ resp.obj["status"] = "pending"
    /\ HasMessage /\ resp.obj["message"] = "no such folder"
    /\ ApiError
    /\ outcome.text = "Error creating folder: no such folder"

\* C2 (as claimed): delete_folder, rename_folder, move_item (when it sends a
\* request), delete_item, start_transfer, clear_finished_transfer and
\* abort_transfer raise an API error exactly when the response's status is
\* "error", and return normally on every other status.
C2_RaisesOnlyOnError ==
    (Done /\ op \in ErrorOnlyOps /\ HasStatus) =>
        /\ ApiError <=> resp.obj["status"] = "error"
        /\ resp.obj["status"] /= "error" => Returned

\* C9 (as claimed): a response that fails the status check and has no message
\* field still makes the method raise an API error, whose server-message part
\* is the empty string.
C9_MissingMessageIsApiError ==
    (FailsCheck /\ ~HasMessage) =>
        /\ ApiError
        /\ \E prefix \in {"", "Error creating folder: ", "Error deleting folder: ",
                          "Error renaming folder: ", "Error moving item: ",
                          "Error browsing torrent: ", "Error starting transfer: ",
                          "Error deleting transfer: "} :
               outcome.text = prefix \o ""

\* C3: browse_torrent on an entity whose type is not "torrent" raises the
\* precondition error and issues no request, whatever its other attributes
\* are (a hash or none).
C3_NonTorrentSendsNothing ==
    (Done /\ op = "browse_torrent" /\ HasAttr(args.item, "type")
          /\ args.item["type"] /= PyStr("torrent")) =>
        /\ sent = <<>>
        /\ resp = NoNet
        /\ ApiError
        /\ outcome.text = "item is not a torrent"

C3_Witness ==
    /\ Done /\ op = "browse_torrent"
    /\ args.item = [id |-> PyInt("2"), type |-> PyStr("file"), hash |-> PyStr("abc")]
    /\ sent = <<>>
    /\ ApiError

\* the parameters of a request other than the two credentials
OwnParams(req) ==
    [key \in DOMAIN req.params \ {"customer_id", "pin"} |-> req.params[key]]

\* the 0-based positions of a list of items whose id does not string-equal
\* the destination
Kept(item, folder_id) ==
    {k \in 0..(Len(item) - 1) : item[k + 1]["id"].v /= folder_id.v}

\* C4: move_item with a list of items (each with an id and a type) and a
\* destination id sends, when an item remains, one request whose own
\* parameters are exactly id = the destination and, for each remaining
\* position k, items[k][id] and items[k][type] of that item; a skipped item
\* contributes nothing.  With two items and none skipped the keys are
\* items[0][id], items[0][type], items[1][id], items[1][type], id and the two
\* credentials.
C4_MoveListParams ==
    (Done /\ op = "move_item" /\ args.is_list /\ args.folder_id /= None
          /\ (\A k \in 1..Len(args.items) :
                  HasAttr(args.items[k], "id") /\ HasAttr(args.items[k], "type"))
          /\ Kept(args.items, args.folder_id) /= {}) =>
        LET kept == Kept(args.items, args.folder_id)
            own == OwnParams(sent[1])
        IN  /\ Len(sent) = 1
            /\ DOMAIN own = {"id"} \cup {ItemsKey(k, "id") : k \in kept}
                                   \cup {ItemsKey(k, "type") : k \in kept}
            /\ own["id"] = args.folder_id
            /\ \A k \in kept :
                   /\ own[ItemsKey(k, "id")] = args.items[k + 1]["id"]
                   /\ own[ItemsKey(k, "type")] = args.items[k + 1]["type"]
            /\ (Len(args.items) = 2 /\ kept = {0, 1}) =>
                   DOMAIN sent[1].params =
                       {"items[0][id]", "items[0][type]", "items[1][id]", "items[1][type]",
                        "id", "customer_id", "pin"}

\* the first of two items string-equals the destination (id "1" against 1)
\* and is skipped; the second keeps its position 1
C4_Witness ==
    /\ Done /\ op = "move_item" /\ args.is_list
    /\ args.folder_id = PyInt("1")
    /\ args.items = << [id |-> PyStr("1"), type |-> PyStr("file")],
                      [id |-> PyInt("2"), type |-> PyStr("torrent"), hash |-> PyStr("abc")] >>
    /\ Len(sent) = 1
    /\ DOMAIN OwnParams(sent[1]) = {"id", "items[1][id]", "items[1][type]"}
    /\ OwnParams(sent[1])["id"] = PyInt("1")
    /\ OwnParams(sent[1])["items[1][id]"] = PyInt("2")
    /\ OwnParams(sent[1])["items[1][type]"] = PyStr("torrent")

\* C5 (as claimed): move_item with a destination id and items whose ids all
\* string-equal it, given as one entity or as a list, issues no request and
\* returns without raising.
C5_AllAtDestinationIsNoOp ==
    (Done /\ op = "move_item" /\ args.folder_id /= None
          /\ IF args.is_list
             THEN \A k \in 1..Len(args.items) :
                      HasAttr(args.items[k], "id") /\ args.items[k]["id"].v = args.folder_id.v
             ELSE HasAttr(args.item, "id") /\ args.item["id"].v = args.folder_id.v) =>
        /\ sent = <<>>
        /\ Returned

\* the number of children under the first k top-level keys of a content
RECURSIVE ChildCount(_, _)
ChildCount(content, k) ==
    IF k = 0 THEN 0 ELSE ChildCount(content, k - 1) + Len(content[k].value["children"])

\* C6: for a browse_torrent response whose status is not "error" and whose
\* content holds a children mapping under every top-level key, the result is
\* the children of the first key in their order, then those of the second,
\* and so on, each as one entity: as many entities as there are children, and
\* no child of a child among them.
C6_BrowseFlattensInOrder ==
    (Done /\ op = "browse_torrent" /\ HasStatus /\ resp.obj["status"] /= "error"
          /\ "content" \in DOMAIN resp.obj
          /\ (\A k \in 1..Len(resp.obj["content"]) :
                  "children" \in DOMAIN resp.obj["content"][k].value)) =>
        LET content == resp.obj["content"]
        IN  /\ Returned
            /\ Len(outcome.value) = ChildCount(content, Len(content))
            /\ \A k \in 1..Len(content) :
                   \A j \in 1..Len(content[k].value["children"]) :
                       outcome.value[ChildCount(content, k - 1) + j]
                           = content[k].value["children"][j].value

\* content {a: {children: {f1, f2}}, b: {children: {f3}}} gives f1, f2, f3;
\* f2 has a child g1 of its own, which is not listed
C6_Witness ==
    /\ Done /\ op = "browse_torrent" /\ HasStatus /\ resp.obj["status"] = "pending"
    /\ "content" \in DOMAIN resp.obj
    /\ resp.obj["content"] =
           << [key |-> "a",
               value |-> [children |-> << [key |-> "f1", value |-> ChildObject("f1")],
                                          [key |-> "f2", value |-> ChildObject("f2")] >>]],
              [key |-> "b",
               value |-> [children |-> << [key |-> "f3", value |-> ChildObject("f3")] >>]] >>
    /\ Returned
    /\ Len(outcome.value) = 3
    /\ outcome.value[1]["name"] = PyStr("f1")
    /\ outcome.value[2]["name"] = PyStr("f2")
    /\ outcome.value[3]["name"] = PyStr("f3")

\* C7: for a list_folder response with status "success" and a content list,
\* the result has one entity per content entry, in the same order, and the
\* attributes of each entity are exactly the keys of its entry with the same
\* values; an empty content gives the empty sequence.
C7_ListFolderFieldForField ==
    (Done /\ op = "list_folder" /\ HasStatus /\ resp.obj["status"] = "success"
          /\ "content" \in DOMAIN resp.obj) =>
        LET content == resp.obj["content"]
        IN  /\ Returned
            /\ Len(outcome.value) = Len(content)
            /\ content = <<>> => outcome.value = <<>>
            /\ \A k \in 1..Len(content) :
                   /\ DOMAIN outcome.value[k] = DOMAIN content[k]
                   /\ \A key \in DOMAIN content[k] : outcome.value[k][key] = content[k][key]

C7_Witness ==
    /\ Done /\ op = "list_folder" /\ HasStatus /\ resp.obj["status"] = "success"
    /\ "content" \in DOMAIN resp.obj
    /\ resp.obj["content"] =
           << [name |-> PyStr("x")],
              [id |-> PyInt("1"), name |-> PyStr("docs"), type |-> PyStr("folder")] >>
    /\ Returned
    /\ Len(outcome.value) = 2
    /\ DOMAIN outcome.value[1] = {"name"}
    /\ DOMAIN outcome.value[2] = {"id", "name", "type"}

\* C8: whatever methods have run, returning or raising, the client's user_id,
\* user_pin and base_url are those it was constructed with, and every request
\* a method issued went to base_url + that method's endpoint with customer_id
\* the constructed user_id and pin the constructed user_pin.
C8_CredentialsFixed ==
    /\ user_id = ctor.user_id
    /\ user_pin = ctor.user_pin
    /\ base_url = ctor.base_url
    /\ Done =>
           \A i \in 1..Len(sent) :
               /\ sent[i].url = ctor.base_url \o Endpoint(op)
               /\ {"customer_id", "pin"} \subseteq DOMAIN sent[i].params
               /\ sent[i].params["customer_id"] = ctor.user_id
               /\ sent[i].params["pin"] = ctor.user_pin

C8_Witness ==
    /\ Done /\ op = "abort_transfer" /\ ApiError
    /\ Len(sent) = 1
    /\ sent[1].url = "https://www.premiumize.me/api/transfer/delete"
    /\ sent[1].params = [customer_id |-> PyStr("2000"), pin |-> PyStr("pinB"),
                         type |-> PyStr("torrent"), id |-> PyInt("2")]

\* C10: an invocation issues at most one GET; one that got anything back from
\* the transport (an object passing or failing the check, a body that is not
\* JSON, a transport failure) issued exactly one, and one that issued none
\* got nothing back.
C10_AtMostOneRequest ==
    Done =>
        /\ Len(sent) <= 1
        /\ resp /= NoNet => Len(sent) = 1
        /\ (ApiError /\ outcome.text /= "item is not a torrent") => Len(sent) = 1

C10_Witness ==
    /\ Done /\ op = "rename_folder" /\ FailsCheck /\ ApiError
    /\ Len(sent) = 1

\* the transport itself failed and the failure went straight to the caller
C10_WitnessTransport ==
    /\ Done /\ op = "list_transfer" /\ resp.kind = "fail"
    /\ outcome.kind = "raise" /\ outcome.exc = "ConnectionError"
    /\ Len(sent) = 1

====
